---------------------------- MODULE Spec2Model ----------------------------
(***************************************************************************)
(* State-machine model of OpenSim's Ligament force element                 *)
(* (OpenSim/Simulation/Model/Ligament.cpp) and of the Reporter interface   *)
(* (OpenSim/Simulation/Reporter.h).                                        *)
(*                                                                         *)
(* C++ doubles are modelled as exact extended rationals <<n, d>> in lowest *)
(* terms with d >= 0: d > 0 is the finite value n/d, <<1,0>> is +Inf,      *)
(* <<-1,0>> is -Inf and <<0,0>> is NaN.  Rounding error and the sign of    *)
(* zero are not modelled.                                                  *)
(***************************************************************************)
EXTENDS Integers, Sequences, FiniteSets

\* ---------------------------------------------------------------- bounds
\* Path lengths the simulation state can present: 0 .. MaxLength.
MaxLength == 3
\* Resting lengths handed to the setters: the halves in -1 .. MaxRest.
MaxRest == 2
\* Force scales and stiffnesses handed to the setters: -1 .. MaxForce.
MaxForce == 2
\* postScale is explored while the rescaled resting length stays within
\* |numerator| <= MaxRestNum and denominator <= MaxRestDen.
MaxRestNum == 4
MaxRestDen == 2
\* The caller's body-force accumulator holds at most MaxEntries entries.
MaxEntries == 3
\* Candidate reporting events offered after the last one of the gating
\* scenario.
MaxExtraEvents == 1

\* ------------------------------------------------------------ arithmetic
Abs(n) == IF n < 0 THEN -n ELSE n

Sign(n) == IF n < 0 THEN -1 ELSE IF n > 0 THEN 1 ELSE 0

RECURSIVE GCD(_, _)
GCD(a, b) == IF b = 0 THEN a ELSE GCD(b, a % b)

NaN == <<0, 0>>
PosInf == <<1, 0>>
NegInf == <<-1, 0>>

IsNaN(a) == a = NaN

\* The double n/d for d >= 0, in lowest terms.
RNorm(n, d) ==
    IF d = 0 THEN <<Sign(n), 0>>
    ELSE LET g == GCD(Abs(n), d) IN <<n \div g, d \div g>>

Rat(n) == <<n, 1>>

Zero == Rat(0)

RNeg(a) == <<-a[1], a[2]>>

RAdd(a, b) ==
    IF IsNaN(a) \/ IsNaN(b) THEN NaN
    ELSE IF a[2] = 0 /\ b[2] = 0 THEN (IF a = b THEN a ELSE NaN)
    ELSE IF a[2] = 0 THEN a
    ELSE IF b[2] = 0 THEN b
    ELSE RNorm(a[1] * b[2] + b[1] * a[2], a[2] * b[2])

RSub(a, b) == RAdd(a, RNeg(b))

RMul(a, b) ==
    IF IsNaN(a) \/ IsNaN(b) THEN NaN
    ELSE RNorm(a[1] * b[1], a[2] * b[2])

RDiv(a, b) ==
    IF IsNaN(a) \/ IsNaN(b) THEN NaN
    ELSE LET s == IF b[1] < 0 THEN -1 ELSE 1
         IN  RNorm(a[1] * b[2] * s, a[2] * Abs(b[1]))

\* a <= b on doubles: false as soon as one side is NaN.
RLe(a, b) ==
    IF IsNaN(a) \/ IsNaN(b) THEN FALSE
    ELSE IF a = b THEN TRUE
    ELSE IF a = NegInf \/ b = PosInf THEN TRUE
    ELSE IF a = PosInf \/ b = NegInf THEN FALSE
    ELSE a[1] * b[2] <= b[1] * a[2]

RLt(a, b) == RLe(a, b) /\ a # b

RGt(a, b) == RLt(b, a)

\* ---------------------------------------------------------------- curves
\* A Function object: the SimmSpline through the default control points, or
\* a LinearFunction(slope, intercept).
SimmSpline == [type |-> "SimmSpline", slope |-> Zero, intercept |-> Zero]

LinearFunction(slope, intercept) ==
    [type |-> "LinearFunction", slope |-> slope, intercept |-> intercept]

\* The 13 control points of the default force-length curve, in thousandths.
forceLengthCurveX ==
    <<-5000, 998, 999, 1000, 1100, 1200, 1300, 1400, 1500, 1600, 1601, 1602, 5000>>

forceLengthCurveY ==
    <<0, 0, 0, 0, 35, 120, 260, 550, 1170, 2000, 2000, 2000, 2000>>

forceLengthCurvePoints == 13

KnotX(i) == RNorm(forceLengthCurveX[i], 1000)

KnotY(i) == RNorm(forceLengthCurveY[i], 1000)

\* The default curve at x: exact at the control points, interpolated between
\* two neighbouring control points and held at the end values outside them.
SimmSplineCalcValue(x) ==
    IF IsNaN(x) THEN NaN
    ELSE IF RLe(x, KnotX(1)) THEN KnotY(1)
    ELSE IF RLe(KnotX(forceLengthCurvePoints), x) THEN KnotY(forceLengthCurvePoints)
    ELSE LET i == CHOOSE k \in 1..(forceLengthCurvePoints - 1) :
                      RLe(KnotX(k), x) /\ RLt(x, KnotX(k + 1))
             dy == RSub(KnotY(i + 1), KnotY(i))
             dx == RSub(KnotX(i + 1), KnotX(i))
         IN  RAdd(KnotY(i), RDiv(RMul(dy, RSub(x, KnotX(i))), dx))

\* Function::calcValue(Vector(1, x)).
calcValue(f, x) ==
    IF f.type = "LinearFunction" THEN RAdd(RMul(f.slope, x), f.intercept)
    ELSE SimmSplineCalcValue(x)

\* ----------------------------------------------------------------- state
VARIABLES
    ndebug,              \* the build defines NDEBUG: assert() compiles to nothing
    aborted,             \* a failed assert() has aborted the process
    model,               \* _model: "NULL" or "aModel"
    subComponents,       \* sub-components registered by includeAsSubComponent
    superConnected,      \* Super::connectToModel has run
    pathOwner,           \* the GeometryPath's owner: "NULL" or "this"
    resting_length,      \* property resting_length
    pcsa_force,          \* property pcsa_force
    force_length_curve,  \* property force_length_curve
    pathLength,          \* GeometryPath::getLength(s)
    preScaleLength,      \* GeometryPath::getPreScaleLength(s)
    inStep,              \* the orchestrator is accumulating the forces of a step
    bodyForces,          \* the caller's body-force accumulator
    generalizedForces,   \* the caller's generalized-force accumulator
    is_disabled,         \* Reporter: the disabled flag carried by the state
    report_time_iterval, \* Reporter: property report_time_iterval
    lastReportTime,      \* Reporter: time of the last recorded row
    reportTable,         \* Reporter: _reportTable
    events               \* the candidate events offered so far: <<time, disabled>>

lifeVars == <<ndebug, aborted, model, subComponents, superConnected, pathOwner>>

cfgVars == <<resting_length, pcsa_force, force_length_curve>>

pathVars == <<pathLength, preScaleLength>>

accVars == <<inStep, bodyForces, generalizedForces>>

repVars == <<is_disabled, report_time_iterval, lastReportTime, reportTable, events>>

vars == <<lifeVars, cfgVars, pathVars, accVars, repVars>>

PathLengths == {Rat(n) : n \in 0..MaxLength}

RestArgs == {RNorm(n, 2) : n \in (-2)..(2 * MaxRest)}

ForceArgs == {Rat(n) : n \in (-1)..MaxForce}

\* Curves a caller hands to setForceLengthCurve.
CurveArgs == {SimmSpline,
              LinearFunction(Rat(1), Zero),
              LinearFunction(Zero, Rat(1))}

\* What another force element has already put into the accumulator.
OtherEntry == [body |-> "ground", point |-> Rat(0), force |-> Rat(7)]

\* Ligament::Ligament() and constructProperties().
LigamentInit ==
    /\ ndebug \in BOOLEAN
    /\ aborted = FALSE
    /\ model = "NULL"
    /\ subComponents = {}
    /\ superConnected = FALSE
    /\ pathOwner = "NULL"
    /\ resting_length = Rat(0)
    /\ pcsa_force = Rat(0)
    /\ force_length_curve = SimmSpline
    /\ pathLength = Rat(1)
    /\ preScaleLength = Zero
    /\ inStep = FALSE
    /\ bodyForces = <<>>
    /\ generalizedForces = <<Zero>>

\* Every operation needs a live process.
Running == ~aborted

\* The accumulators live from BeginStep to EndStep.  The orchestrator is
\* single-threaded and step-driven: it configures, rescales and advances the
\* state between steps (~inStep) and computes forces within one (inStep).

\* Ligament::connectToModel(aModel); m is _model once Super::connectToModel
\* has run ("NULL" while objects are being registered).
ConnectToModel(m) ==
    /\ Running
    /\ subComponents' = subComponents \cup {"GeometryPath"}
    /\ superConnected' = TRUE
    /\ model' = m
    /\ IF m = "NULL"
       THEN UNCHANGED <<aborted, pathOwner>>
       ELSE IF ~ndebug /\ ~RGt(resting_length, Zero)
            THEN aborted' = TRUE /\ UNCHANGED pathOwner
            ELSE pathOwner' = "this" /\ UNCHANGED aborted
    /\ UNCHANGED <<ndebug, cfgVars, pathVars, accVars, repVars>>

\* Ligament::setRestingLength(aRestingLength).
SetRestingLength(aRestingLength) ==
    /\ Running /\ ~inStep
    /\ resting_length' = aRestingLength
    /\ UNCHANGED <<lifeVars, pcsa_force, force_length_curve, pathVars,
                   accVars, repVars>>

\* Ligament::setMaxIsometricForce(aMaxIsometricForce).
SetMaxIsometricForce(aMaxIsometricForce) ==
    /\ Running /\ ~inStep
    /\ pcsa_force' = aMaxIsometricForce
    /\ UNCHANGED <<lifeVars, resting_length, force_length_curve, pathVars,
                   accVars, repVars>>

\* Ligament::setForceLengthCurve(aForceLengthCurve).
SetForceLengthCurve(aForceLengthCurve) ==
    /\ Running /\ ~inStep
    /\ force_length_curve' = aForceLengthCurve
    /\ UNCHANGED <<lifeVars, resting_length, pcsa_force, pathVars, accVars,
                   repVars>>

\* Fault variant of setLinearStiffness: the line has unit slope.
SetLinearStiffnessUnitSlope(aStiffness, aRestLength) ==
    /\ Running /\ ~inStep
    /\ force_length_curve' = LinearFunction(Rat(1), Zero)
    /\ resting_length' = aRestLength
    /\ pcsa_force' = aStiffness
    /\ UNCHANGED <<lifeVars, pathVars, accVars, repVars>>

\* Ligament::setLinearStiffness(aStiffness, aRestLength).
SetLinearStiffness(aStiffness, aRestLength) ==
    /\ Running /\ ~inStep
    /\ force_length_curve' = LinearFunction(aRestLength, Zero)
    /\ resting_length' = aRestLength
    /\ pcsa_force' = aStiffness
    /\ UNCHANGED <<lifeVars, pathVars, accVars, repVars>>

\* Ligament::preScale: the path records its current length.
PreScale ==
    /\ Running /\ ~inStep
    /\ preScaleLength' = pathLength
    /\ UNCHANGED <<lifeVars, cfgVars, pathLength, accVars, repVars>>

\* Ligament::scale: the path applies the geometric rescale, which gives it
\* the length newLength.
Scale(newLength) ==
    /\ Running /\ ~inStep
    /\ pathLength' = newLength
    /\ UNCHANGED <<lifeVars, cfgVars, preScaleLength, accVars, repVars>>

\* The model follows a rescaled resting length this far.
RestInBounds(r) == Abs(r[1]) <= MaxRestNum /\ r[2] <= MaxRestDen

\* Fault variant of postScale: the scale factor is inverted.
PostScaleInverted ==
    /\ Running /\ ~inStep
    /\ IF RGt(preScaleLength, Zero)
       THEN LET scaleFactor == RDiv(preScaleLength, pathLength)
            IN  /\ RestInBounds(RMul(resting_length, scaleFactor))
                /\ resting_length' = RMul(resting_length, scaleFactor)
                /\ preScaleLength' = Zero
       ELSE UNCHANGED <<resting_length, preScaleLength>>
    /\ UNCHANGED <<lifeVars, pcsa_force, force_length_curve, pathLength,
                   accVars, repVars>>

\* Fault variant of postScale: the pre-scale length is not cleared.
PostScaleKeepsSlot ==
    /\ Running /\ ~inStep
    /\ IF RGt(preScaleLength, Zero)
       THEN LET scaleFactor == RDiv(pathLength, preScaleLength)
            IN  /\ RestInBounds(RMul(resting_length, scaleFactor))
                /\ resting_length' = RMul(resting_length, scaleFactor)
                /\ UNCHANGED preScaleLength
       ELSE UNCHANGED <<resting_length, preScaleLength>>
    /\ UNCHANGED <<lifeVars, pcsa_force, force_length_curve, pathLength,
                   accVars, repVars>>

\* Ligament::postScale.
PostScale ==
    /\ Running /\ ~inStep
    /\ IF RGt(preScaleLength, Zero)
       THEN LET scaleFactor == RDiv(pathLength, preScaleLength)
            IN  /\ RestInBounds(RMul(resting_length, scaleFactor))
                /\ resting_length' = RMul(resting_length, scaleFactor)
                /\ preScaleLength' = Zero
       ELSE UNCHANGED <<resting_length, preScaleLength>>
    /\ UNCHANGED <<lifeVars, pcsa_force, force_length_curve, pathLength,
                   accVars, repVars>>

\* GeometryPath::getPointForceDirections: the (body, point, direction)
\* triples of the path, one per attachment, pulling towards each other.
PFDs ==
    << [body |-> "femur", point |-> Rat(0), direction |-> Rat(1)],
       [body |-> "tibia", point |-> Rat(1), direction |-> Rat(-1)] >>

\* Force::applyForceToPoint: one more force applied at a point of a body.
applyForceToPoint(aBody, aPoint, aForce, forces) ==
    Append(forces, [body |-> aBody, point |-> aPoint, force |-> aForce])

\* The loop of computeForce over PFDs[i], i = from .. PFDs.getSize()-1.
RECURSIVE applyAll(_, _, _)
applyAll(i, force, forces) ==
    IF i > Len(PFDs) THEN forces
    ELSE applyAll(i + 1, force,
                  applyForceToPoint(PFDs[i].body, PFDs[i].point,
                                    RMul(force, PFDs[i].direction), forces))

\* Fault variant of computeForce: the slack test is strict, so a path at
\* exactly its resting length is handed on to the distribution loop.
ComputeForceStrictSlack ==
    /\ Running /\ inStep
    /\ IF RLt(pathLength, resting_length)
       THEN UNCHANGED bodyForces
       ELSE LET strain == RDiv(RSub(pathLength, resting_length), resting_length)
                force  == RMul(calcValue(force_length_curve, strain), pcsa_force)
            IN  /\ Len(bodyForces) + Len(PFDs) <= MaxEntries
                /\ bodyForces' = applyAll(1, force, bodyForces)
    /\ UNCHANGED <<lifeVars, cfgVars, pathVars, inStep, generalizedForces,
                   repVars>>

\* Ligament::computeForce(s, bodyForces, generalizedForces).
ComputeForce ==
    /\ Running /\ inStep
    /\ IF RLe(pathLength, resting_length)
       THEN UNCHANGED bodyForces
       ELSE LET strain == RDiv(RSub(pathLength, resting_length), resting_length)
                force  == RMul(calcValue(force_length_curve, strain), pcsa_force)
            IN  /\ Len(bodyForces) + Len(PFDs) <= MaxEntries
                /\ bodyForces' = applyAll(1, force, bodyForces)
    /\ UNCHANGED <<lifeVars, cfgVars, pathVars, inStep, generalizedForces,
                   repVars>>

\* Fault variant of getTension: the slack test is strict.
getTensionStrictSlack(length, restingLength, forceLengthCurve, pcsaForce) ==
    IF RLt(length, restingLength) THEN Zero
    ELSE LET strain == RDiv(RSub(length, restingLength), restingLength)
         IN  RMul(calcValue(forceLengthCurve, strain), pcsaForce)

\* Ligament::getTension(s) as a function of what it reads: the path length
\* in s and the three properties.
getTension(length, restingLength, forceLengthCurve, pcsaForce) ==
    IF RLe(length, restingLength) THEN Zero
    ELSE LET strain == RDiv(RSub(length, restingLength), restingLength)
         IN  RMul(calcValue(forceLengthCurve, strain), pcsaForce)

\* getTension(s) of the current configuration in a state with this length.
tensionAt(length) ==
    getTension(length, resting_length, force_length_curve, pcsa_force)

\* Ligament::getLength(s).
getLength == pathLength

\* The orchestrator starts the force computation of a step: it hands out the
\* accumulators, which another force element may already have written.
BeginStep(forces, generalized) ==
    /\ Running /\ ~inStep
    /\ inStep' = TRUE
    /\ bodyForces' = forces
    /\ generalizedForces' = generalized
    /\ UNCHANGED <<lifeVars, cfgVars, pathVars, repVars>>

\* The orchestrator has consumed the accumulated forces of the step.
EndStep ==
    /\ Running /\ inStep
    /\ inStep' = FALSE
    /\ bodyForces' = <<>>
    /\ generalizedForces' = <<Zero>>
    /\ UNCHANGED <<lifeVars, cfgVars, pathVars, repVars>>

\* The simulation state advances and the path has another length in it.
AdvanceState(newLength) ==
    /\ Running /\ ~inStep
    /\ newLength # pathLength
    /\ pathLength' = newLength
    /\ UNCHANGED <<lifeVars, cfgVars, preScaleLength, accVars, repVars>>

\* -------------------------------------------------------------- reporter
\* Values of report_time_iterval a model file gives the reporter.
IntervalArgs == {NaN, Rat(-1), Zero, RNorm(1, 2), Rat(1)}

\* The candidate events of the gating scenario, in tenths of a second.
ScenarioTenths == <<0, 4, 9, 10, 15, 21>>

\* Times at which the orchestrator offers a candidate event.
CandidateTimes ==
    {RNorm(ScenarioTenths[i], 10) : i \in 1..Len(ScenarioTenths)}
        \cup {RNorm(21 + 5 * k, 10) : k \in 1..MaxExtraEvents}

\* Reporter(): an empty table and no row recorded yet.
ReporterInit ==
    /\ is_disabled \in BOOLEAN
    /\ report_time_iterval \in IntervalArgs
    /\ lastReportTime = NegInf
    /\ reportTable = <<>>
    /\ events = <<>>

\* A reporter that is constructed and then left alone.
ReporterIdle ==
    /\ is_disabled = FALSE
    /\ report_time_iterval = NaN
    /\ lastReportTime = NegInf
    /\ reportTable = <<>>
    /\ events = <<>>

\* The values of the bound Inputs at time t.
InputValues(t) == <<RMul(Rat(2), t)>>

Row(t) == [time |-> t, values |-> InputValues(t)]

\* Time of the last candidate event offered.
LastEventTime ==
    IF events = <<>> THEN NegInf ELSE events[Len(events)][1]

\* Fault variant of the gating decision: an event exactly one interval
\* after the last row is skipped.
ShouldRecordStrict(t) ==
    /\ ~is_disabled
    /\ \/ RLt(report_time_iterval, Zero)
       \/ IsNaN(report_time_iterval)
       \/ RLt(report_time_iterval, RSub(t, lastReportTime))

\* The gating decision of report(s) at time t.
ShouldRecord(t) ==
    /\ ~is_disabled
    /\ \/ RLt(report_time_iterval, Zero)
       \/ IsNaN(report_time_iterval)
       \/ RLe(report_time_iterval, RSub(t, lastReportTime))

\* Reporter::report(s), s a state at time t, later than the last event.
Report(t) ==
    /\ Running
    /\ RLt(LastEventTime, t)
    /\ events' = Append(events, <<t, is_disabled>>)
    /\ IF ShouldRecord(t)
       THEN /\ reportTable' = Append(reportTable, Row(t))
            /\ lastReportTime' = t
       ELSE UNCHANGED <<reportTable, lastReportTime>>
    /\ UNCHANGED <<lifeVars, cfgVars, pathVars, accVars, is_disabled,
                   report_time_iterval>>

\* Fault variant of setDisabled: enabling re-initializes the gating time.
SetDisabledResetsTime(disabled) ==
    /\ Running
    /\ is_disabled' = disabled
    /\ lastReportTime' = IF disabled THEN lastReportTime ELSE NegInf
    /\ UNCHANGED <<lifeVars, cfgVars, pathVars, accVars, report_time_iterval,
                   reportTable, events>>

\* Reporter::setDisabled(s, disabled).
SetDisabled(disabled) ==
    /\ Running
    /\ is_disabled' = disabled
    /\ UNCHANGED <<lifeVars, cfgVars, pathVars, accVars, report_time_iterval,
                   lastReportTime, reportTable, events>>

\* Reporter::isDisabled(s).
isDisabled == is_disabled

\* Reporter::getReport().
getReport == reportTable

\* -------------------------------------------------------- specifications
Init == LigamentInit /\ ReporterIdle

\* Force computation: configuration, state advance and the steps of the
\* orchestrator.
Next ==
    \/ \E r \in RestArgs : SetRestingLength(r)
    \/ \E f \in ForceArgs : SetMaxIsometricForce(f)
    \/ \E c \in CurveArgs : SetForceLengthCurve(c)
    \/ \E k \in ForceArgs, r \in RestArgs : SetLinearStiffness(k, r)
    \/ \E l \in PathLengths : AdvanceState(l)
    \/ \E f \in {<<>>, <<OtherEntry>>}, g \in {<<Zero>>, <<Rat(5)>>} : BeginStep(f, g)
    \/ ComputeForce
    \/ EndStep

Spec == Init /\ [][Next]_vars

\* Setup and scaling.  The stiffness plays no part in either, so one value
\* of it is enough here.
NextScale ==
    \/ \E m \in {"NULL", "aModel"} : ConnectToModel(m)
    \/ \E r \in RestArgs : SetRestingLength(r)
    \/ \E r \in RestArgs : SetLinearStiffness(Rat(1), r)
    \/ PreScale
    \/ \E l \in PathLengths : Scale(l)
    \/ PostScale

SpecScale == Init /\ [][NextScale]_vars

\* The reporter.
InitReporter == LigamentInit /\ ReporterInit

NextReporter ==
    \/ \E t \in CandidateTimes : Report(t)
    \/ \E d \in BOOLEAN : SetDisabled(d)

SpecReporter == InitReporter /\ [][NextReporter]_vars
\* ----------------------------------------------------------- properties
\* C1: with restingLength > 0, getTension is 0 when the path length is at
\* most restingLength, and otherwise curve(strain) * forceScale with
\* strain = (length - restingLength) / restingLength >= 0.
C1_TensionLaw ==
    RGt(resting_length, Zero) =>
        \A l \in PathLengths :
            IF RLe(l, resting_length)
            THEN tensionAt(l) = Zero
            ELSE LET strain == RDiv(RSub(l, resting_length), resting_length)
                 IN  /\ RLe(Zero, strain)
                     /\ tensionAt(l) =
                            RMul(calcValue(force_length_curve, strain), pcsa_force)

\* A taut ligament with a positive resting length pulls.
C1_Witness ==
    /\ RGt(resting_length, Zero)
    /\ RGt(pathLength, resting_length)
    /\ RGt(tensionAt(pathLength), Zero)
    /\ force_length_curve = SimmSpline

\* C2 as stated: after setLinearStiffness(K, L0), K > 0 and L0 > 0,
\* getTension is K * (length - L0) / L0 for every path length > L0.
C2_AsStated ==
    [][\A k \in ForceArgs, r \in RestArgs :
          (SetLinearStiffness(k, r) /\ RGt(k, Zero) /\ RGt(r, Zero)) =>
              \A l \in PathLengths :
                  RGt(l, r) =>
                      getTension(l, resting_length', force_length_curve',
                                 pcsa_force')
                          = RDiv(RMul(k, RSub(l, r)), r)]_vars

\* C2 amended: after setLinearStiffness(K, L0), L0 # 0, getTension is
\* K * (length - L0) for every path length > L0: the line has slope L0, so
\* the division by L0 in the strain cancels.
C2_LinearSpring ==
    [][\A k \in ForceArgs, r \in RestArgs :
          (SetLinearStiffness(k, r) /\ r # Zero) =>
              \A l \in PathLengths :
                  RGt(l, r) =>
                      getTension(l, resting_length', force_length_curve',
                                 pcsa_force')
                          = RMul(k, RSub(l, r))]_vars

\* A linear spring of rest length 2 and stiffness 2 stretched to length 3.
C2_Witness ==
    /\ force_length_curve = LinearFunction(Rat(2), Zero)
    /\ resting_length = Rat(2)
    /\ pcsa_force = Rat(2)
    /\ pathLength = Rat(3)
    /\ tensionAt(pathLength) = Rat(2)

\* The entries computeForce owes the accumulator: the tension along each
\* direction of the path decomposition.
ExpectedEntries ==
    [i \in 1..Len(PFDs) |->
        [body  |-> PFDs[i].body,
         point |-> PFDs[i].point,
         force |-> RMul(tensionAt(pathLength), PFDs[i].direction)]]

\* C3: computeForce changes nothing but the body-force accumulator: nothing
\* is added when length <= restingLength, otherwise getTension * direction
\* at every triple of the path decomposition; the state, the configuration
\* and the generalized forces stay as they are.
C3_ComputeForceFrame ==
    [][ComputeForce =>
          /\ bodyForces' = IF RLe(pathLength, resting_length)
                           THEN bodyForces
                           ELSE bodyForces \o ExpectedEntries
          /\ UNCHANGED <<lifeVars, cfgVars, pathVars, generalizedForces, repVars>>]_vars

\* The ligament has added its two forces behind another element's entry.
C3_Witness ==
    /\ inStep
    /\ Len(bodyForces) = 3
    /\ bodyForces[1] = OtherEntry
    /\ bodyForces[2].body = "femur" /\ RGt(bodyForces[2].force, Zero)
    /\ bodyForces[3].body = "tibia" /\ RLt(bodyForces[3].force, Zero)
    /\ generalizedForces = <<Rat(5)>>

\* C4: with a positive resting length, no setter sequence makes the tension
\* negative.
C4_NoCompression ==
    RGt(resting_length, Zero) =>
        /\ RLe(Zero, tensionAt(pathLength))
        /\ \A i \in 1..Len(bodyForces) :
               bodyForces[i].body = "femur" => RLe(Zero, bodyForces[i].force)

\* C5: with assertions compiled in, once connectToModel has set the path's
\* owner the resting length stays positive.
C5_RestingLengthPositive ==
    (~ndebug /\ pathOwner = "this") => RGt(resting_length, Zero)

\* C6: connectToModel with an owning model and restingLength <= 0 fails the
\* setup: the process stops there, the owner is not set and the resting
\* length is not replaced.
C6_SetupFails ==
    [][(ConnectToModel("aModel") /\ ~RGt(resting_length, Zero)) =>
          /\ aborted'
          /\ pathOwner' = pathOwner
          /\ resting_length' = resting_length]_vars

\* C7: a postScale that finds a pre-scale length P > 0 and the path length L
\* multiplies restingLength by L / P: unchanged for L = P, doubled for
\* L = 2P.
C7_ScaleRestingLength ==
    [][(PostScale /\ RGt(preScaleLength, Zero)) =>
          /\ resting_length' =
                 RDiv(RMul(resting_length, pathLength), preScaleLength)
          /\ (pathLength = preScaleLength => resting_length' = resting_length)
          /\ (pathLength = RMul(Rat(2), preScaleLength) =>
                  resting_length' = RMul(Rat(2), resting_length))]_vars

\* A resting length of 2 doubled by a rescale from length 1 to length 2.
C7_Witness ==
    /\ resting_length = Rat(4)
    /\ pathLength = Rat(2)
    /\ preScaleLength = Zero

\* C10: postScale leaves the pre-scale length at zero; with a pre-scale
\* length of zero it leaves restingLength alone; and only preScale makes the
\* pre-scale length non-zero again.
C10_ScratchSlotCleared ==
    [][/\ PostScale =>
            /\ preScaleLength' = Zero
            /\ (preScaleLength = Zero => resting_length' = resting_length)
       /\ (preScaleLength' # preScaleLength /\ preScaleLength' # Zero) =>
              PreScale]_vars

\* A resting length tripled by a rescale, the pre-scale length cleared and
\* the path moved on since.
C10_Witness ==
    /\ resting_length = Rat(3)
    /\ preScaleLength = Zero
    /\ pathLength = Rat(1)

\* The rows and the last report time that greedy gating of the candidate
\* events evs leaves behind, starting from rows and last.
RECURSIVE Gate(_, _, _)
Gate(evs, rows, last) ==
    IF evs = <<>> THEN <<rows, last>>
    ELSE LET t == Head(evs)[1]
             off == Head(evs)[2]
             take == /\ ~off
                     /\ \/ RLt(report_time_iterval, Zero)
                        \/ IsNaN(report_time_iterval)
                        \/ RLe(report_time_iterval, RSub(t, last))
         IN  IF take THEN Gate(Tail(evs), Append(rows, Row(t)), t)
             ELSE Gate(Tail(evs), rows, last)

Times(rows) == [i \in 1..Len(rows) |-> rows[i].time]

EventTimes == [i \in 1..Len(events) |-> events[i][1]]

NeverDisabled == \A i \in 1..Len(events) : ~events[i][2]

ScenarioEvents ==
    [i \in 1..Len(ScenarioTenths) |-> RNorm(ScenarioTenths[i], 10)]

\* C8: the table is what greedy gating of the candidate events leaves (a row
\* and lastReportTime = currentTime exactly when the reporter is enabled and
\* the interval is negative or NaN or has elapsed); with interval 1.0 the
\* events 0.0, 0.4, 0.9, 1.0, 1.5, 2.1 give the rows 0.0, 1.0, 2.1; with a
\* negative or NaN interval every event gives a row, in order.
C8_Gating ==
    /\ <<reportTable, lastReportTime>> = Gate(events, <<>>, NegInf)
    /\ (report_time_iterval = Rat(1) /\ NeverDisabled /\ EventTimes = ScenarioEvents)
           => Times(reportTable) = <<Rat(0), Rat(1), RNorm(21, 10)>>
    /\ ((RLt(report_time_iterval, Zero) \/ IsNaN(report_time_iterval)) /\ NeverDisabled)
           => Times(reportTable) = EventTimes

\* The gating scenario has run to its end.
C8_Witness ==
    /\ report_time_iterval = Rat(1)
    /\ NeverDisabled
    /\ EventTimes = ScenarioEvents
    /\ Len(reportTable) = 3

\* Time of the last row of the table.
LastRowTime ==
    IF reportTable = <<>> THEN NegInf ELSE reportTable[Len(reportTable)].time

IsPrefix(a, b) == Len(a) <= Len(b) /\ SubSeq(b, 1, Len(a)) = a

\* C9: a disabled reporter appends nothing; rows are never removed or
\* altered; and an enabled reporter gates every event against the time of
\* the last row of the table, whatever disabling happened in between.
C9_DisableKeepsHistory ==
    [][/\ IsPrefix(reportTable, reportTable')
       /\ is_disabled => reportTable' = reportTable
       /\ (events' # events /\ ~is_disabled) =>
              LET t == events'[Len(events')][1]
                  due == \/ RLt(report_time_iterval, Zero)
                         \/ IsNaN(report_time_iterval)
                         \/ RLe(report_time_iterval, RSub(t, LastRowTime))
              IN  reportTable' = IF due THEN Append(reportTable, Row(t))
                                 ELSE reportTable]_vars

\* A row at 0.0, an event at 0.4 while disabled, and after re-enabling the
\* event at 0.9 skipped as less than one interval after 0.0.
C9_Witness ==
    /\ report_time_iterval = Rat(1)
    /\ events = <<<<Rat(0), FALSE>>, <<RNorm(4, 10), TRUE>>, <<RNorm(9, 10), FALSE>>>>
    /\ ~is_disabled
    /\ Times(reportTable) = <<Rat(0)>>
=============================================================================
